---- MODULE Spec2Model ----
(***************************************************************************)
(* State-machine model of the food-bot backend: the Firestore collections  *)
(* (users, messages, user_sessions), the auth / preference / chat-history  *)
(* services and the Flask routes in front of them.                         *)
(*                                                                         *)
(* Python values are modelled as follows:                                  *)
(*   dict            -> a TLA+ record / function whose DOMAIN is the set   *)
(*                      of keys (keys may be absent)                       *)
(*   preference value: a list is [list |-> <<...>>], anything else is      *)
(*                      [scalar |-> str]                                   *)
(*   None            -> [None |-> TRUE]                                    *)
(*   raised error    -> [raised |-> TRUE, cls |-> class, msg |-> text]     *)
(*   return value    -> [raised |-> FALSE, value |-> v]                    *)
(*   str             -> a tuple of string pieces, so that f-strings such   *)
(*                      as f'user_{id}@example.com' are computed by        *)
(*                      concatenation (dict keys stay TLA+ strings)        *)
(*   datetime        -> whole seconds since the epoch                      *)
(***************************************************************************)
EXTENDS Integers, Sequences, FiniteSets, TLC

(***************************************************************************)
(* Bounds of the model.                                                    *)
(***************************************************************************)
MaxUsers == 2
MaxTicks == 2
MaxPrefEntries == 3
MaxMessages == 2

(***************************************************************************)
(* Program constants.                                                      *)
(***************************************************************************)
JwtExpires == 2592000
BearerLen == 7

JwtSecret == "your-secret-key-here"
OtherKey == "not-the-secret"

(***************************************************************************)
(* Input domains.                                                          *)
(***************************************************************************)
UserIds == 1..MaxUsers
Usernames == {<<"kavleen">>}
Emails == {<<"k", "@example.com">>, <<"a", "@example.com">>}
NoEmail == <<>>
NoText == ""
Passwords == {"pw123", "hunter2", NoText}
Salts == {"salt1"}

VARIABLES
    users,      \* collection 'users': document id -> document (a dict)
    messages,   \* collection 'messages': set of documents, each with its id
    sessions,   \* collection 'user_sessions': set of documents, each with its id
    now,        \* the wall clock, in seconds
    last,       \* the last request served and its outcome
    inflight    \* requests between two of their store calls, one per client

vars == <<users, messages, sessions, now, last, inflight>>

(***************************************************************************)
(* Python exceptions.  Every class used here derives from Exception, so an *)
(* `except Exception` clause catches each of them; `except ValueError`     *)
(* catches only ValueError.                                                *)
(***************************************************************************)
Raise(cls, msg) == [raised |-> TRUE, cls |-> cls, msg |-> msg]
Return(v) == [raised |-> FALSE, value |-> v]
NoError == [raised |-> FALSE]
ExceptionClasses == {"Exception", "ValueError", "KeyError", "GoogleAPIError"}
IsValueError(r) == r.raised /\ r.cls = "ValueError"
IsException(r) == r.raised /\ r.cls \in ExceptionClasses

(***************************************************************************)
(* Firestore.  A store call fails when the store is unavailable; `up` is   *)
(* the availability of the store during the request.                       *)
(***************************************************************************)
StoreError == Raise("GoogleAPIError", "503 unavailable")

\* users_collection.where('email', '==', email).get(): matching ids
WhereEmail(us, email) ==
    {id \in DOMAIN us : "email" \in DOMAIN us[id] /\ us[id].email = email}

\* query results come back ordered by document id
FirstDoc(ids) == CHOOSE id \in ids : \A other \in ids : id <= other

\* users_collection.document(): a fresh, store-assigned document id
FreshIds(us) == UserIds \ DOMAIN us

(***************************************************************************)
(* bcrypt: a salted one-way hash.                                          *)
(***************************************************************************)
hash_password(password, salt) == [salt |-> salt, digest |-> <<salt, password>>]

verify_password(password, hashed) == hash_password(password, hashed.salt) = hashed

(***************************************************************************)
(* PyJWT (HS256).  A compact token is modelled as the sequence of its      *)
(* three segments <<header, payload, signature>>; a header value is a      *)
(* sequence of characters followed by such segments.                       *)
(***************************************************************************)
JwtHeader == <<"HS256">>
Hmac(key, payload) == <<"hmac", key, payload>>

jwt_encode(payload, key) == <<JwtHeader, payload, Hmac(key, payload)>>

\* jwt.decode(token, key, algorithms=['HS256']) at time t
jwt_decode(token, key, t) ==
    IF Len(token) # 3 \/ token[1] # JwtHeader
    THEN Raise("DecodeError", "Not enough segments")
    ELSE IF token[3] # Hmac(key, token[2])
    THEN Raise("InvalidSignatureError", "Signature verification failed")
    ELSE IF "exp" \in DOMAIN token[2] /\ token[2].exp <= t
    THEN Raise("ExpiredSignatureError", "Signature has expired")
    ELSE Return(token[2])

Bearer == <<"B", "e", "a", "r", "e", "r", " ">>

\* str.startswith
StartsWith(s, prefix) ==
    Len(s) >= Len(prefix) /\ SubSeq(s, 1, Len(prefix)) = prefix

\* s[n:]
DropFirst(s, n) == SubSeq(s, n + 1, Len(s))

\* a faulty variant of generate_token: the lifetime taken as minutes
generate_token_minutes(user_id, t) ==
    jwt_encode([user_id |-> user_id, exp |-> t + JwtExpires \div 60], JwtSecret)

(***************************************************************************)
(* AuthService                                                             *)
(***************************************************************************)
\* AuthService.generate_token at time t
generate_token(user_id, t) ==
    jwt_encode([user_id |-> user_id, exp |-> t + JwtExpires], JwtSecret)

\* a faulty variant of StripBearer: token[6:], which keeps the blank
StripBearerShort(token) ==
    IF StartsWith(token, Bearer) THEN DropFirst(token, BearerLen - 1) ELSE token

\* token[7:] after a 'Bearer ' prefix
StripBearer(token) ==
    IF StartsWith(token, Bearer) THEN DropFirst(token, BearerLen) ELSE token

\* AuthService.verify_token at time t: every failure inside the try block
\* (decode error, bad signature, expiry, a payload without 'user_id') is
\* turned into ValueError("Token is invalid") by the bare except.
verify_token(token, t) ==
    LET data == jwt_decode(StripBearer(token), JwtSecret, t)
    IN  IF data.raised \/ "user_id" \notin DOMAIN data.value
        THEN Raise("ValueError", "Token is invalid")
        ELSE Return(data.value.user_id)

\* AuthService.register_user.  `salt` is bcrypt's random salt, `id` the
\* document id the store assigns, `up` whether the store answers.
\* Result: [out |-> return value or raised error, users |-> the collection].
register_user(us, username, email, password, salt, id, t, up) ==
    LET \* lines 41-46: the body of the first try block
        lookup == IF ~up THEN StoreError
                  ELSE IF WhereEmail(us, email) # {}
                  THEN Raise("ValueError", "Email already registered")
                  ELSE NoError
        \* lines 47-49: except Exception as e
        checked == IF IsException(lookup)
                   THEN Raise("Exception", "Database connection failed")
                   ELSE NoError
        user_data == [username |-> username, email |-> email,
                      password |-> hash_password(password, salt),
                      created_at |-> t]
    IN  IF checked.raised
        THEN [out |-> checked, users |-> us]
        ELSE [out |-> Return([user_id |-> id, username |-> username,
                              email |-> email, created_at |-> t]),
              users |-> (id :> user_data) @@ us]

\* register_user up to its first store call: the lookup by email and the
\* except clause around it (lines 41-49)
register_lookup(us, email, up) ==
    LET lookup == IF ~up THEN StoreError
                  ELSE IF WhereEmail(us, email) # {}
                  THEN Raise("ValueError", "Email already registered")
                  ELSE NoError
    IN  IF IsException(lookup)
        THEN Raise("Exception", "Database connection failed")
        ELSE NoError

\* register_user after the lookup: the document written under a fresh id
\* (lines 51-84)
register_write(us, username, email, password, salt, id, t, up) ==
    IF ~up
    THEN [out |-> Raise("Exception", "Failed to create user in database"),
          users |-> us]
    ELSE [out |-> Return([user_id |-> id, username |-> username,
                          email |-> email, created_at |-> t]),
          users |-> (id :> [username |-> username, email |-> email,
                            password |-> hash_password(password, salt),
                            created_at |-> t]) @@ us]

\* a faulty variant of login_user: the password check moved inside the
\* try block, so that its ValueError is swallowed like the lookup's
login_user_swallowed(us, email, password, t, up) ==
    LET found == WhereEmail(us, email)
        id == FirstDoc(found)
        body == IF ~up THEN StoreError
                ELSE IF found = {}
                THEN Raise("ValueError", "Invalid credentials")
                ELSE IF "password" \notin DOMAIN us[id]
                THEN Raise("KeyError", "password")
                ELSE IF ~verify_password(password, us[id].password)
                THEN Raise("ValueError", "Invalid credentials")
                ELSE Return([user |-> [id |-> id, username |-> us[id].username,
                                       email |-> us[id].email,
                                       created_at |-> us[id].created_at],
                             token |-> generate_token(id, t),
                             expires_in |-> JwtExpires])
    IN  IF IsException(body)
        THEN Raise("Exception", "Database connection failed")
        ELSE body

\* AuthService.login_user at time t
login_user(us, email, password, t, up) ==
    LET found == WhereEmail(us, email)
        \* lines 91-102: the body of the try block
        lookup == IF ~up THEN StoreError
                  ELSE IF found = {}
                  THEN Raise("ValueError", "Invalid credentials")
                  ELSE NoError
        \* lines 103-105: except Exception as e
        checked == IF IsException(lookup)
                   THEN Raise("Exception", "Database connection failed")
                   ELSE NoError
        id == FirstDoc(found)
        user == us[id]
    IN  IF checked.raised THEN checked
        ELSE IF "password" \notin DOMAIN user
        THEN Raise("KeyError", "password")
        ELSE IF ~verify_password(password, user.password)
        THEN Raise("ValueError", "Invalid credentials")
        ELSE Return([user |-> [id |-> id, username |-> user.username,
                               email |-> user.email,
                               created_at |-> user.created_at],
                     token |-> generate_token(id, t),
                     expires_in |-> JwtExpires])

\* AuthService.get_user_profile
get_user_profile(us, user_id, up) ==
    LET \* lines 133-149: the body of the try block
        body == IF ~up THEN StoreError
                ELSE IF user_id \notin DOMAIN us
                THEN Raise("ValueError", "User not found")
                ELSE IF {"username", "email", "created_at"} \subseteq DOMAIN us[user_id]
                THEN Return([id |-> user_id, username |-> us[user_id].username,
                             email |-> us[user_id].email,
                             created_at |-> us[user_id].created_at])
                ELSE Raise("KeyError", "username")
    IN  \* lines 150-152: except Exception as e
        IF IsException(body)
        THEN Raise("Exception", "Database connection failed")
        ELSE body

(***************************************************************************)
(* Flask routes (app.py).  A JSON body is a dict; .get(k) of an absent key *)
(* is None, which is falsy.  A response is [status, body].                 *)
(***************************************************************************)
Has(data, k) == k \in DOMAIN data
\* data.get(k) is truthy: the key is there and its string is not empty
Given(data, k) == Has(data, k) /\ Len(data[k]) > 0
EmptyBody == <<>>
Response(status, body) == [status |-> status, body |-> body]
ErrorResponse(status, msg) == Response(status, [error |-> msg])

\* register(): POST /api/register
\* Result: [resp |-> response, svc |-> outcome of the service call,
\*          users |-> the collection afterwards].
RegisterRoute(us, data, salt, id, t, up) ==
    IF DOMAIN data = {}
    THEN [resp |-> ErrorResponse(400, "Request body is required"),
          svc |-> NoError, users |-> us]
    ELSE IF ~(Given(data, "username") /\ Given(data, "email")
              /\ Given(data, "password"))
    THEN [resp |-> ErrorResponse(400, "Username, email, and password are required"),
          svc |-> NoError, users |-> us]
    ELSE LET r == register_user(us, data.username, data.email, data.password,
                                salt, id, t, up)
         IN  IF ~r.out.raised
             THEN [resp |-> Response(201,
                              [message |-> "User registered successfully",
                               user |-> [id |-> r.out.value.user_id,
                                         username |-> r.out.value.username,
                                         email |-> r.out.value.email,
                                         created_at |-> r.out.value.created_at]]),
                   svc |-> r.out, users |-> r.users]
             ELSE IF IsValueError(r.out)
             THEN [resp |-> ErrorResponse(400, r.out.msg),
                   svc |-> r.out, users |-> r.users]
             ELSE [resp |-> ErrorResponse(500, "Registration failed"),
                   svc |-> r.out, users |-> r.users]

\* login(): POST /api/login
LoginRoute(us, data, t, up) ==
    IF DOMAIN data = {}
    THEN [resp |-> ErrorResponse(400, "Request body is required"), svc |-> NoError]
    ELSE IF ~(Given(data, "email") /\ Given(data, "password"))
    THEN [resp |-> ErrorResponse(400, "Email and password are required"),
          svc |-> NoError]
    ELSE LET r == login_user(us, data.email, data.password, t, up)
         IN  IF ~r.raised
             THEN [resp |-> Response(200,
                              [message |-> "Login successful",
                               user |-> r.value.user,
                               token |-> r.value.token,
                               expires_in |-> r.value.expires_in]),
                   svc |-> r]
             ELSE IF IsValueError(r)
             THEN [resp |-> ErrorResponse(401, r.msg), svc |-> r]
             ELSE [resp |-> ErrorResponse(500, "Login failed"), svc |-> r]

\* get_profile(current_user_id): GET /api/profile, the body behind
\* @token_required
ProfileRoute(us, current_user_id, up) ==
    LET r == get_user_profile(us, current_user_id, up)
    IN  IF ~r.raised
        THEN [resp |-> Response(200, [user |-> r.value]), svc |-> r]
        ELSE IF IsValueError(r)
        THEN [resp |-> ErrorResponse(404, r.msg), svc |-> r]
        ELSE [resp |-> ErrorResponse(500, "Failed to get profile"), svc |-> r]

(***************************************************************************)
(* PreferenceService                                                       *)
(***************************************************************************)
None == [None |-> TRUE]
EmptyDict == <<>>
PyList(seq) == [list |-> seq]
PyScalar(str) == [scalar |-> str]
IsList(v) == "list" \in DOMAIN v
\* Python truthiness of a preference value
Truthy(v) == IF IsList(v) THEN Len(v.list) > 0 ELSE Len(v.scalar) > 0
\* `not preferences` for None, {} and non-empty dicts
Falsy(prefs) == prefs = None \/ DOMAIN prefs = {}
InList(value, seq) == \E i \in 1..Len(seq) : seq[i] = value
\* d[k] = v on a dict
SetKey(d, k, v) == (k :> v) @@ d

\* f'user_{user_id}' and f'user_{user_id}@example.com'
ShellUsername(user_id) == <<"user_", ToString(user_id)>>
ShellEmail(user_id) == <<"user_", ToString(user_id), "@example.com">>

\* f"{preference_type}: {value}"
CustomEntry(preference_type, value) == <<preference_type, ": ">> \o value

\* PreferenceService.get_user_preferences
get_user_preferences(us, user_id, up) ==
    IF ~up THEN EmptyDict
    ELSE IF user_id \notin DOMAIN us THEN None
    ELSE IF "preferences" \in DOMAIN us[user_id] THEN us[user_id].preferences
    ELSE EmptyDict

\* a faulty variant of update_user_preferences: the new dict merged into
\* the stored one instead of replacing it
update_user_preferences_merge(us, user_id, preferences, t, up) ==
    IF ~up THEN [ok |-> FALSE, users |-> us]
    ELSE IF user_id \notin DOMAIN us
    THEN [ok |-> TRUE,
          users |-> (user_id :> [username |-> ShellUsername(user_id),
                                 email |-> ShellEmail(user_id),
                                 preferences |-> preferences,
                                 preferences_updated_at |-> t,
                                 created_at |-> t]) @@ us]
    ELSE [ok |-> TRUE,
          users |-> [us EXCEPT ![user_id] =
                        SetKey(SetKey(@, "preferences",
                                      IF "preferences" \in DOMAIN @
                                      THEN preferences @@ @.preferences
                                      ELSE preferences),
                               "preferences_updated_at", t)]]

\* PreferenceService.update_user_preferences at time t
\* Result: [ok |-> returned boolean, users |-> the collection afterwards].
update_user_preferences(us, user_id, preferences, t, up) ==
    IF ~up THEN [ok |-> FALSE, users |-> us]
    ELSE IF user_id \notin DOMAIN us
    THEN [ok |-> TRUE,
          users |-> (user_id :> [username |-> ShellUsername(user_id),
                                 email |-> ShellEmail(user_id),
                                 preferences |-> preferences,
                                 preferences_updated_at |-> t,
                                 created_at |-> t]) @@ us]
    ELSE [ok |-> TRUE,
          users |-> [us EXCEPT ![user_id] =
                        SetKey(SetKey(@, "preferences", preferences),
                               "preferences_updated_at", t)]]

\* the default skeleton of add_preference (lines 62-69)
DefaultPreferences ==
    [likes |-> PyList(<<>>), dislikes |-> PyList(<<>>),
     restrictions |-> PyList(<<>>), allergies |-> PyList(<<>>),
     cuisine_preferences |-> PyList(<<>>), custom |-> PyList(<<>>)]

\* lines 72-82 of add_preference: the dict after the value is added, or a
\* raised error (list.append on a 'custom' entry that is no list)
AddToCategory(current, preference_type, value) ==
    IF preference_type \in DOMAIN current
    THEN IF IsList(current[preference_type])
         THEN IF ~InList(value, current[preference_type].list)
              THEN Return(SetKey(current, preference_type,
                          PyList(Append(current[preference_type].list, value))))
              ELSE Return(current)
         ELSE Return(SetKey(current, preference_type, PyScalar(value)))
    ELSE LET withCustom == IF "custom" \notin DOMAIN current
                           THEN SetKey(current, "custom", PyList(<<>>))
                           ELSE current
         IN  IF IsList(withCustom.custom)
             THEN Return(SetKey(withCustom, "custom",
                         PyList(Append(withCustom.custom.list,
                                       CustomEntry(preference_type, value)))))
             ELSE Raise("AttributeError", "'str' object has no attribute 'append'")

\* PreferenceService.add_preference at time t
add_preference(us, user_id, preference_type, value, t, up) ==
    LET stored == get_user_preferences(us, user_id, up)
        current == IF Falsy(stored) THEN DefaultPreferences ELSE stored
        added == AddToCategory(current, preference_type, value)
    IN  IF added.raised
        THEN [ok |-> FALSE, users |-> us]
        ELSE update_user_preferences(us, user_id, added.value, t, up)

\* add_preference up to its write: the read of the stored preferences and
\* the dict built from it (lines 59-82); the dict, or a raised error
add_preference_read(us, user_id, preference_type, value, up) ==
    LET stored == get_user_preferences(us, user_id, up)
        current == IF Falsy(stored) THEN DefaultPreferences ELSE stored
    IN  AddToCategory(current, preference_type, value)

MandatoryFields == <<"restrictions", "allergies", "cuisine_preferences">>

\* a faulty variant of get_missing_mandatory_preferences: only absent
\* fields are reported, empty ones are not
missing_absent_only(preferences) ==
    IF preferences = None
    THEN Raise("AttributeError", "'NoneType' object has no attribute 'get'")
    ELSE Return(SelectSeq(MandatoryFields,
                LAMBDA field : field \notin DOMAIN preferences))

\* PreferenceService.get_missing_mandatory_preferences: the list of missing
\* fields, in the order of mandatory_fields
get_missing_mandatory_preferences(preferences) ==
    IF preferences = None
    THEN Raise("AttributeError", "'NoneType' object has no attribute 'get'")
    ELSE Return(SelectSeq(MandatoryFields,
                LAMBDA field : ~(field \in DOMAIN preferences
                                 /\ Truthy(preferences[field]))))

\* PreferenceService.has_complete_preferences
has_complete_preferences(preferences) ==
    LET missing == get_missing_mandatory_preferences(preferences)
    IN  IF missing.raised THEN missing ELSE Return(Len(missing.value) = 0)

\* get_preferences(current_user_id): GET /api/preferences
GetPreferencesRoute(us, current_user_id, up) ==
    Response(200, [preferences |-> get_user_preferences(us, current_user_id, up)])

\* update_preferences(current_user_id): PUT /api/preferences
\* Result: [resp |-> response, users |-> the collection afterwards].
UpdatePreferencesRoute(us, current_user_id, data, t, up) ==
    IF DOMAIN data = {}
    THEN [resp |-> ErrorResponse(400, "Request body is required"), users |-> us]
    ELSE IF ~Has(data, "preferences") \/ Falsy(data.preferences)
    THEN [resp |-> ErrorResponse(400, "Preferences are required"), users |-> us]
    ELSE LET r == update_user_preferences(us, current_user_id,
                                          data.preferences, t, up)
         IN  IF r.ok
             THEN [resp |-> Response(200,
                              [message |-> "Preferences updated successfully",
                               preferences |-> data.preferences]),
                   users |-> r.users]
             ELSE [resp |-> ErrorResponse(500, "Failed to update preferences"),
                   users |-> r.users]


(***************************************************************************)
(* ChatHistoryService.  A Message document carries its store-assigned id;  *)
(* a session id is a str, None / '' being the empty tuple.                 *)
(***************************************************************************)
NoSession == <<>>
DefaultSession == <<"default">>
\* session_id or "default"
OrDefault(session_id) == IF session_id = NoSession THEN DefaultSession ELSE session_id

MessageIds == 1..MaxMessages
\* collection.add(): a fresh, store-assigned document id
FreshMessageIds(msgs) == MessageIds \ {m.id : m \in msgs}

\* a faulty variant of save_message: the exchange written over the user's
\* earlier ones instead of added
save_message_overwriting(msgs, user_id, message, response, session_id, t, id, up) ==
    IF ~up THEN [ok |-> FALSE, messages |-> msgs]
    ELSE [ok |-> TRUE,
          messages |-> {m \in msgs : m.user_id # user_id}
                       \cup {[id |-> id, user_id |-> user_id,
                               session_id |-> OrDefault(session_id),
                               user_message |-> message,
                               assistant_response |-> response,
                               timestamp |-> t]}]

\* ChatHistoryService.save_message at time t; never raises
\* Result: [ok |-> returned boolean, messages |-> the collection afterwards].
save_message(msgs, user_id, message, response, session_id, t, id, up) ==
    IF ~up THEN [ok |-> FALSE, messages |-> msgs]
    ELSE [ok |-> TRUE,
          messages |-> msgs \cup {[id |-> id, user_id |-> user_id,
                                   session_id |-> OrDefault(session_id),
                                   user_message |-> message,
                                   assistant_response |-> response,
                                   timestamp |-> t]}]

\* the query of get_conversation_history / clear_conversation_history:
\* where user_id == ..., and where session_id == ... when one is given
MatchingMessages(msgs, user_id, session_id) ==
    {m \in msgs : /\ m.user_id = user_id
                  /\ session_id = NoSession \/ m.session_id = session_id}

\* order_by("timestamp", DESCENDING): newest first, ties by document id
RECURSIVE NewestFirst(_)
NewestFirst(ms) ==
    IF ms = {} THEN <<>>
    ELSE LET top == CHOOSE m \in ms : \A o \in ms :
                        \/ m.timestamp > o.timestamp
                        \/ m.timestamp = o.timestamp /\ m.id >= o.id
         IN  <<top>> \o NewestFirst(ms \ {top})

Reverse(seq) == [i \in 1..Len(seq) |-> seq[Len(seq) + 1 - i]]
Take(seq, n) == SubSeq(seq, 1, IF Len(seq) < n THEN Len(seq) ELSE n)
\* history[-n:]
LastN(seq, n) == SubSeq(seq, IF Len(seq) < n THEN 1 ELSE Len(seq) - n + 1, Len(seq))

\* a faulty variant of get_conversation_history: the final reverse() left
\* out, so the newest exchange comes first
history_newest_first(msgs, user_id, session_id, limit, up) ==
    IF ~up THEN <<>>
    ELSE Take(NewestFirst(MatchingMessages(msgs, user_id, session_id)), limit)

\* a faulty variant of get_conversation_history: the query ordered
\* ascending, so the limit keeps the oldest exchanges
history_oldest_kept(msgs, user_id, session_id, limit, up) ==
    IF ~up THEN <<>>
    ELSE Take(Reverse(NewestFirst(MatchingMessages(msgs, user_id, session_id))),
              limit)

\* ChatHistoryService.get_conversation_history: oldest first, at most
\* `limit` of the newest; [] when the store fails
get_conversation_history(msgs, user_id, session_id, limit, up) ==
    IF ~up THEN <<>>
    ELSE Reverse(Take(NewestFirst(MatchingMessages(msgs, user_id, session_id)),
                      limit))

\* a faulty variant of clear_conversation_history: the user filter left
\* out, so the session's exchanges of every user are deleted
clear_session_of_everyone(msgs, user_id, session_id, up) ==
    IF ~up THEN [ok |-> FALSE, messages |-> msgs]
    ELSE [ok |-> TRUE,
          messages |-> {m \in msgs : session_id # NoSession
                                     /\ m.session_id # session_id}]

\* a faulty variant of clear_conversation_history: the session filter left
\* out, so every Message of the user is deleted
clear_all_sessions(msgs, user_id, session_id, up) ==
    IF ~up THEN [ok |-> FALSE, messages |-> msgs]
    ELSE [ok |-> TRUE,
          messages |-> msgs \ MatchingMessages(msgs, user_id, NoSession)]

\* ChatHistoryService.clear_conversation_history
\* Result: [ok |-> returned boolean, messages |-> the collection afterwards].
clear_conversation_history(msgs, user_id, session_id, up) ==
    IF ~up THEN [ok |-> FALSE, messages |-> msgs]
    ELSE [ok |-> TRUE,
          messages |-> msgs \ MatchingMessages(msgs, user_id, session_id)]

\* the uuid4 values create_session can draw
Uuids == {<<"uuid-1">>}
FreshUuids(msgs, sess) ==
    Uuids \ ({m.session_id : m \in msgs} \cup {d.session_id : d \in sess})
\* the auto id of a user_sessions document added for a session
AutoId(session_id) == <<"auto">> \o session_id
\* f"{user_id}_{session_id}"
CompositeId(user_id, session_id) == <<ToString(user_id), "_">> \o session_id

\* ChatHistoryService.create_session at time t
\* Result: [created |-> whether an id (not None) is returned, session_id,
\*          sessions |-> the collection].
create_session(sess, user_id, session_name, uuid, t, up) ==
    IF ~up THEN [created |-> FALSE, session_id |-> None, sessions |-> sess]
    ELSE [created |-> TRUE, session_id |-> uuid,
          sessions |-> sess \cup {[doc_id |-> AutoId(uuid), user_id |-> user_id,
                                   session_id |-> uuid,
                                   session_name |-> session_name,
                                   created_at |-> t, status |-> "active"]}]

\* a faulty variant of delete_session: the metadata documents left in place
delete_session_messages_only(msgs, sess, user_id, session_id, up) ==
    LET cleared == clear_conversation_history(msgs, user_id, session_id, up)
    IN  [ok |-> cleared.ok, messages |-> cleared.messages, sessions |-> sess]

\* ChatHistoryService.delete_session
\* Result: [ok |-> returned boolean, messages, sessions].
delete_session(msgs, sess, user_id, session_id, up) ==
    LET cleared == clear_conversation_history(msgs, user_id, session_id, up)
    IN  [ok |-> cleared.ok,
         messages |-> cleared.messages,
         sessions |-> IF ~up THEN sess
                      ELSE {d \in sess : ~(d.user_id = user_id
                                           /\ d.session_id = session_id)}]

\* ChatHistoryService.session_exists
session_exists(msgs, sess, user_id, session_id, up) ==
    /\ up
    /\ \/ \E m \in msgs : m.user_id = user_id /\ m.session_id = session_id
       \/ \E d \in sess : d.doc_id = CompositeId(user_id, session_id)

\* the session ids of a stream of messages, each once, in the order of
\* their first appearance (the insertion order of the dict `sessions`)
RECURSIVE FirstSeen(_, _)
FirstSeen(stream, seen) ==
    IF stream = <<>> THEN <<>>
    ELSE IF Head(stream).session_id \in seen
    THEN FirstSeen(Tail(stream), seen)
    ELSE <<Head(stream).session_id>>
         \o FirstSeen(Tail(stream), seen \cup {Head(stream).session_id})

\* a faulty variant of get_user_sessions: the query not restricted to the
\* user's messages
sessions_of_everyone(msgs, user_id, up) ==
    IF ~up THEN <<>>
    ELSE LET stream == NewestFirst(msgs)
             ids == FirstSeen(stream, {})
         IN  [i \in 1..Len(ids) |->
                LET of == SelectSeq(stream, LAMBDA m : m.session_id = ids[i])
                IN  [session_id |-> ids[i],
                     message_count |-> Len(of),
                     first_message |-> of[1].timestamp,
                     last_message |-> of[1].timestamp,
                     last_activity |-> of[1].timestamp]]

\* ChatHistoryService.get_user_sessions: one entry per session id among the
\* user's messages, read newest first; first_message, last_message and
\* last_activity are all set when a session id is first met; the final
\* sort by last_activity (descending, stable) keeps that order.  [] when
\* the store fails.  The token and keyword tallies are left out.
get_user_sessions(msgs, user_id, up) ==
    IF ~up THEN <<>>
    ELSE LET stream == NewestFirst({m \in msgs : m.user_id = user_id})
             ids == FirstSeen(stream, {})
         IN  [i \in 1..Len(ids) |->
                LET of == SelectSeq(stream, LAMBDA m : m.session_id = ids[i])
                IN  [session_id |-> ids[i],
                     message_count |-> Len(of),
                     first_message |-> of[1].timestamp,
                     last_message |-> of[1].timestamp,
                     last_activity |-> of[1].timestamp]]

\* str.lower() over texts kept as sequences of characters
UpperCase == <<"A", "B", "C", "D", "E", "F", "G", "H", "I", "J", "K", "L", "M",
               "N", "O", "P", "Q", "R", "S", "T", "U", "V", "W", "X", "Y", "Z">>
LowerCase == <<"a", "b", "c", "d", "e", "f", "g", "h", "i", "j", "k", "l", "m",
               "n", "o", "p", "q", "r", "s", "t", "u", "v", "w", "x", "y", "z">>
LowerChar(c) ==
    IF \E i \in 1..Len(UpperCase) : UpperCase[i] = c
    THEN LowerCase[CHOOSE i \in 1..Len(UpperCase) : UpperCase[i] = c]
    ELSE c
lower(text) == [i \in 1..Len(text) |-> LowerChar(text[i])]
\* `sub in text`
Contains(sub, text) ==
    \E i \in 0..(Len(text) - Len(sub)) : SubSeq(text, i + 1, i + Len(sub)) = sub

\* ChatHistoryService.search_conversation: the matches among the user's 100
\* most recent Messages, in the order of the history read; [] when the
\* store fails
search_conversation(msgs, user_id, query, limit, up) ==
    LET history == get_conversation_history(msgs, user_id, NoSession, 100, up)
        query_lower == lower(query)
        matching_messages ==
            SelectSeq(history,
                      LAMBDA m : \/ Contains(query_lower, lower(m.user_message))
                                 \/ Contains(query_lower,
                                             lower(m.assistant_response)))
    IN  Take(matching_messages, limit)

\* the keyword list of _extract_recent_topics
TopicKeywords ==
    {<<"f", "o", "o", "d">>, <<"m", "e", "a", "l">>,
     <<"l", "u", "n", "c", "h">>, <<"d", "i", "n", "n", "e", "r">>,
     <<"b", "r", "e", "a", "k", "f", "a", "s", "t">>,
     <<"r", "e", "c", "i", "p", "e">>, <<"c", "o", "o", "k">>,
     <<"e", "a", "t">>, <<"v", "e", "g", "e", "t", "a", "r", "i", "a", "n">>,
     <<"v", "e", "g", "a", "n">>, <<"s", "p", "i", "c", "y">>,
     <<"s", "w", "e", "e", "t">>, <<"s", "a", "l", "t", "y">>,
     <<"h", "e", "a", "l", "t", "h", "y">>,
     <<"n", "u", "t", "r", "i", "t", "i", "o", "n">>, <<"d", "a", "l">>,
     <<"r", "i", "c", "e">>, <<"c", "u", "r", "r", "y">>,
     <<"b", "i", "r", "y", "a", "n", "i">>, <<"p", "a", "n", "e", "e", "r">>,
     <<"c", "h", "i", "c", "k", "e", "n">>, <<"f", "i", "s", "h">>}

\* ChatHistoryService._extract_recent_topics: the keywords found in the
\* texts of the given exchanges, at most five of them
extract_recent_topics(recent_messages) ==
    LET topics == {kw \in TopicKeywords :
                     \E i \in 1..Len(recent_messages) :
                        Contains(kw, lower(recent_messages[i].user_message
                                           \o <<" ">>
                                           \o recent_messages[i].assistant_response))}
    IN  IF Cardinality(topics) <= 5 THEN topics
        ELSE CHOOSE top \in SUBSET topics : Cardinality(top) = 5

\* ChatHistoryService.get_conversation_summary over the user's 100 most
\* recent exchanges; the dict with the key 'error' when the store fails is
\* not reached, since get_conversation_history answers [] then
get_conversation_summary(msgs, user_id, up) ==
    LET history == get_conversation_history(msgs, user_id, NoSession, 100, up)
    IN  IF history = <<>>
        THEN [total_messages |-> 0, first_message |-> None,
              last_message |-> None, conversation_duration |-> None]
        ELSE [total_messages |-> Len(history),
              first_message |-> history[1].timestamp,
              last_message |-> history[Len(history)].timestamp,
              conversation_duration |-> history[Len(history)].timestamp
                                        - history[1].timestamp,
              recent_topics |-> extract_recent_topics(LastN(history, 10))]

(***************************************************************************)
(* EnhancedFoodBotAgent and ChatService.  The hosted model is an opaque    *)
(* collaborator: one invocation either yields a reply, yields a result     *)
(* without messages, or raises.                                            *)
(***************************************************************************)
AgentOutcomes ==
    {[kind |-> "reply", text |-> "Try dal and rice."],
     [kind |-> "empty"],
     [kind |-> "error"]}
NoResponseText == "I'm having trouble processing your request. Please try again."
ApologyText == "Sorry, I'm having trouble processing your request right now."

\* a faulty variant of process_message: the exchange saved without its
\* session id
process_message_unsessioned(msgs, sess, user_id, message, session_id, agent, t, id, up) ==
    LET is_new_session ==
            IF session_id # NoSession /\ session_id # DefaultSession
            THEN ~session_exists(msgs, sess, user_id, session_id, up)
            ELSE TRUE
        response == IF agent.kind = "reply" THEN agent.text ELSE NoResponseText
    IN  IF agent.kind = "error"
        THEN [response |-> ApologyText, is_new_session |-> is_new_session,
              messages |-> msgs]
        ELSE [response |-> response, is_new_session |-> is_new_session,
              messages |-> save_message(msgs, user_id, message, response,
                                        NoSession, t, id, up).messages]

\* a faulty variant of process_message: the apology saved as an exchange
\* when the agent raises
process_message_saving_apology(msgs, sess, user_id, message, session_id, agent, t, id, up) ==
    LET is_new_session ==
            IF session_id # NoSession /\ session_id # DefaultSession
            THEN ~session_exists(msgs, sess, user_id, session_id, up)
            ELSE TRUE
        response == IF agent.kind = "reply" THEN agent.text
                    ELSE IF agent.kind = "error" THEN ApologyText
                    ELSE NoResponseText
    IN  [response |-> response, is_new_session |-> is_new_session,
         messages |-> save_message(msgs, user_id, message, response,
                                   session_id, t, id, up).messages]

\* EnhancedFoodBotAgent.process_message at time t; never raises
\* Result: [response, is_new_session, messages |-> the collection afterwards].
process_message(msgs, sess, user_id, message, session_id, agent, t, id, up) ==
    LET is_new_session ==
            IF session_id # NoSession /\ session_id # DefaultSession
            THEN ~session_exists(msgs, sess, user_id, session_id, up)
            ELSE TRUE
        response == IF agent.kind = "reply" THEN agent.text ELSE NoResponseText
    IN  IF agent.kind = "error"
        THEN [response |-> ApologyText, is_new_session |-> is_new_session,
              messages |-> msgs]
        ELSE [response |-> response, is_new_session |-> is_new_session,
              messages |-> save_message(msgs, user_id, message, response,
                                        session_id, t, id, up).messages]

\* ChatService.send_message
\* Result: [body |-> the returned dict, messages |-> the collection].
send_message(msgs, sess, user_id, message, session_id, agent, t, id, up) ==
    LET r == process_message(msgs, sess, user_id, message, session_id,
                             agent, t, id, up)
    IN  [body |-> [message |-> r.response, user_message |-> message,
                   session_id |-> OrDefault(session_id)],
         messages |-> r.messages]

\* EnhancedFoodBotAgent.get_conversation_history: the formatted history
agent_conversation_history(msgs, user_id, session_id, up) ==
    LET history == get_conversation_history(msgs, user_id, session_id, 50, up)
    IN  [i \in 1..Len(history) |->
            [user |-> history[i].user_message,
             assistant |-> history[i].assistant_response,
             timestamp |-> history[i].timestamp,
             session_id |-> history[i].session_id,
             id |-> history[i].id]]


\* ChatHistoryService.get_langchain_history: the Messages whose request and
\* reply texts are added, in order, to the ChatMessageHistory
get_langchain_history(msgs, user_id, session_id, limit, up) ==
    get_conversation_history(msgs, user_id, session_id, limit, up)

\* EnhancedFoodBotAgent._get_session_history(session_id): the memory loaded
\* for the configured session id, which process_message sets to the user id
get_session_history(msgs, configured_session_id, up) ==
    get_langchain_history(msgs, configured_session_id, NoSession, 20, up)

\* EnhancedFoodBotAgent._get_user_context: the Messages quoted under
\* CURRENT SESSION CONTEXT in the system message
user_context_history(msgs, sess, user_id, session_id, up) ==
    IF session_id # NoSession /\ session_id # DefaultSession
    THEN IF session_exists(msgs, sess, user_id, session_id, up)
         THEN LastN(get_conversation_history(msgs, user_id, session_id, 10, up), 5)
         ELSE <<>>
    ELSE LastN(get_conversation_history(msgs, user_id, NoSession, 5, up), 3)

\* the Messages process_message hands to the agent as conversation history:
\* those quoted in the system message, then the memory of the wrapped agent
agent_history(msgs, sess, user_id, session_id, up) ==
    user_context_history(msgs, sess, user_id, session_id, up)
        \o get_session_history(msgs, user_id, up)


(***************************************************************************)
(* @token_required and the routes behind it (app.py).                      *)
(***************************************************************************)
NoHeader == <<>>

\* a faulty variant of the wrapper: the payload read without verifying
\* signature and expiry
TokenRequiredUnverified(header, t) ==
    IF header = NoHeader
    THEN [ok |-> FALSE, resp |-> ErrorResponse(401, "Token is missing")]
    ELSE LET token == StripBearer(header)
         IN  IF Len(token) # 3
             THEN [ok |-> FALSE, resp |-> ErrorResponse(401, "Token is invalid")]
             ELSE [ok |-> TRUE, current_user_id |-> token[2].user_id]

\* the wrapper `decorated`: either a 401 response, or the user id the
\* wrapped view is called with
TokenRequired(header, t) ==
    IF header = NoHeader
    THEN [ok |-> FALSE, resp |-> ErrorResponse(401, "Token is missing")]
    ELSE LET v == verify_token(header, t)
         IN  IF IsValueError(v)
             THEN [ok |-> FALSE, resp |-> ErrorResponse(401, v.msg)]
             ELSE [ok |-> TRUE, current_user_id |-> v.value]

\* chat(current_user_id): POST /api/chat
\* Result: [resp |-> response, messages |-> the collection afterwards].
ChatRoute(msgs, sess, current_user_id, data, agent, t, id, up) ==
    IF DOMAIN data = {}
    THEN [resp |-> ErrorResponse(400, "Request body is required"),
          messages |-> msgs]
    ELSE IF ~Has(data, "message")
    THEN [resp |-> ErrorResponse(400, "Message is required"), messages |-> msgs]
    ELSE LET session_id == IF Has(data, "session_id") THEN data.session_id
                           ELSE NoSession
             r == send_message(msgs, sess, current_user_id, data.message,
                               session_id, agent, t, id, up)
         IN  [resp |-> Response(200, r.body), messages |-> r.messages]

\* get_chat_history(current_user_id): GET /api/chat/history
ChatHistoryRoute(msgs, current_user_id, up) ==
    LET history == agent_conversation_history(msgs, current_user_id, NoSession, up)
    IN  Response(200, [chat_history |-> history, total_messages |-> Len(history)])

\* clear_chat_history(current_user_id): DELETE /api/chat/history.  The
\* agent's clear_conversation_history returns nothing, so the route
\* answers 200 whatever the service reports.
ClearChatHistoryRoute(msgs, current_user_id, up) ==
    [resp |-> Response(200, [message |-> "Chat history cleared successfully"]),
     messages |-> clear_conversation_history(msgs, current_user_id,
                                             NoSession, up).messages]

\* create_session(current_user_id): POST /api/sessions
CreateSessionRoute(sess, current_user_id, session_name, uuid, t, up) ==
    LET r == create_session(sess, current_user_id, session_name, uuid, t, up)
    IN  IF r.created
        THEN [resp |-> Response(201, [session_id |-> r.session_id,
                                      session_name |-> session_name,
                                      message |-> "Session created successfully"]),
              sessions |-> r.sessions]
        ELSE [resp |-> ErrorResponse(500, "Failed to create session"),
              sessions |-> r.sessions]

\* delete_session(current_user_id, session_id): DELETE /api/sessions/<id>
DeleteSessionRoute(msgs, sess, current_user_id, session_id, up) ==
    LET r == delete_session(msgs, sess, current_user_id, session_id, up)
    IN  [resp |-> IF r.ok
                  THEN Response(200, [message |-> "Session deleted successfully",
                                      session_id |-> session_id])
                  ELSE ErrorResponse(500, "Failed to delete session"),
         messages |-> r.messages, sessions |-> r.sessions]

\* clear_session_history(current_user_id, session_id):
\* DELETE /api/sessions/<id>/history
ClearSessionHistoryRoute(msgs, current_user_id, session_id, up) ==
    [resp |-> Response(200, [message |-> "Session history cleared successfully",
                             session_id |-> session_id]),
     messages |-> clear_conversation_history(msgs, current_user_id,
                                             session_id, up).messages]


(***************************************************************************)
(* Request bodies offered to the routes.                                   *)
(***************************************************************************)
RegisterBodies ==
    [username : Usernames, email : Emails, password : Passwords]
    \cup [username : Usernames, email : Emails]
    \cup {EmptyBody}

LoginBodies ==
    [email : Emails, password : Passwords]
    \cup [email : Emails]
    \cup {EmptyBody}

(***************************************************************************)
(* The clock.  Time passes in steps of one second or of one second less    *)
(* than the token lifetime; TickCount is the number of steps taken so far. *)
(***************************************************************************)
Jumps == {1, JwtExpires - 1}
TickCount(t) == (t \div (JwtExpires - 1)) + (t % (JwtExpires - 1))

(***************************************************************************)
(* Initial state: empty collections.                                       *)
(***************************************************************************)
Init ==
    /\ users = <<>>
    /\ messages = {}
    /\ sessions = {}
    /\ now = 0
    /\ last = [op |-> "init"]
    /\ inflight = {}

Tick ==
    /\ \E d \in Jumps :
         /\ TickCount(now + d) <= MaxTicks
         /\ now' = now + d
    /\ last' = [op |-> "tick"]
    /\ UNCHANGED <<inflight, users, messages, sessions>>

Register ==
    \E data \in RegisterBodies, salt \in Salts, id \in UserIds :
        LET r == RegisterRoute(users, data, salt, id, now, TRUE)
        IN  /\ \/ id \in FreshIds(users)
               \/ FreshIds(users) = {} /\ r.users = users
            /\ users' = r.users
            /\ last' = [op |-> "register", data |-> data,
                        resp |-> r.resp, svc |-> r.svc]
            /\ UNCHANGED <<inflight, messages, sessions, now>>

Login ==
    \E data \in LoginBodies :
        LET r == LoginRoute(users, data, now, TRUE)
        IN  /\ last' = [op |-> "login", data |-> data,
                        resp |-> r.resp, svc |-> r.svc]
            /\ UNCHANGED <<inflight, users, messages, sessions, now>>

Profile ==
    \E uid \in UserIds :
        LET r == ProfileRoute(users, uid, TRUE)
        IN  /\ last' = [op |-> "profile", user_id |-> uid,
                        resp |-> r.resp, svc |-> r.svc]
            /\ UNCHANGED <<inflight, users, messages, sessions, now>>

\* a token whose payload was rewritten after signing
Tampered(token, user_id) ==
    <<token[1], [token[2] EXCEPT !.user_id = user_id], token[3]>>
LowerBearer == <<"b", "e", "a", "r", "e", "r", " ">>

\* the times at which a token presented at time t may have been issued:
\* just now, a second ago, and around one token lifetime ago
IssueTimes(t) ==
    {t0 \in {t, t - 1, t - (JwtExpires - 1), t - JwtExpires, t - JwtExpires - 1} :
        t0 >= 0}
Prefixes == {<<>>, Bearer}

\* what a caller may present to verify_token at time t: a token that
\* generate_token issued for user_id at issued_at, bare or behind 'Bearer '
\* ("issued"), or a token issued just now and then signed with another key
\* ("forged"), given another payload ("tampered"), put behind a lower-case
\* prefix ("lowercase") or cut short ("garbage")
Presented(t) ==
    [kind : {"issued"}, user_id : UserIds, issued_at : IssueTimes(t),
     prefix : Prefixes]
    \cup [kind : {"forged", "tampered"}, user_id : UserIds, issued_at : {t},
          prefix : {Bearer}]
    \cup [kind : {"lowercase", "garbage"}, user_id : {1}, issued_at : {t},
          prefix : {<<>>}]

TokenOf(p) ==
    LET good == generate_token(p.user_id, p.issued_at)
    IN  CASE p.kind = "issued" -> p.prefix \o good
          [] p.kind = "forged" -> p.prefix \o jwt_encode(good[2], OtherKey)
          [] p.kind = "tampered" ->
                p.prefix \o Tampered(good, (p.user_id % MaxUsers) + 1)
          [] p.kind = "lowercase" -> LowerBearer \o good
          [] OTHER -> SubSeq(good, 1, 2)

\* auth_service.verify_token(token) called at time now
Verify ==
    \E p \in Presented(now) :
        /\ last' = [op |-> "verify", kind |-> p.kind, user_id |-> p.user_id,
                    issued_at |-> p.issued_at, prefix |-> p.prefix,
                    token |-> TokenOf(p),
                    result |-> verify_token(TokenOf(p), now)]
        /\ UNCHANGED <<inflight, users, messages, sessions, now>>

Next == Register \/ Login \/ Profile \/ Verify \/ Tick

Spec == Init /\ [][Next]_vars

(***************************************************************************)
(* The preference service on its own: replace (update_user_preferences),   *)
(* add_one (add_preference) and get (get_user_preferences) called for any  *)
(* user id, with or without a User document behind it.                     *)
(***************************************************************************)
Vegetarian == <<"vegetarian">>
NoneValue == <<"none">>
Indian == <<"indian">>
PrefValues == {Vegetarian, NoneValue}
\* the two user ids the preference service is called for
PrefUserIds == {1, 2}
AddCategories == {"restrictions", "allergies", "mood"}

\* the PUT body of the example scenario, and partial / empty / scalar dicts
ScenarioPreferences ==
    [restrictions |-> PyList(<<Vegetarian>>), allergies |-> PyList(<<NoneValue>>),
     cuisine_preferences |-> PyList(<<Indian>>)]
ReplaceChoices ==
    {ScenarioPreferences,
     EmptyDict,
     [restrictions |-> PyList(<<Vegetarian>>)],
     [allergies |-> PyList(<<>>), custom |-> PyScalar(<<"note">>)]}

\* number of values held by a preferences dict / by the whole collection
PrefSize(prefs) ==
    LET keys == DOMAIN prefs
        RECURSIVE Sum(_)
        Sum(ks) == IF ks = {} THEN 0
                   ELSE LET k == CHOOSE x \in ks : TRUE
                        IN  (IF IsList(prefs[k]) THEN Len(prefs[k].list) ELSE 1)
                            + Sum(ks \ {k})
    IN  Sum(keys)
StoreSize(us) ==
    LET RECURSIVE Sum(_)
        Sum(ids) == IF ids = {} THEN 0
                    ELSE LET id == CHOOSE x \in ids : TRUE
                         IN  (IF "preferences" \in DOMAIN us[id]
                              THEN PrefSize(us[id].preferences) ELSE 0)
                             + Sum(ids \ {id})
    IN  Sum(DOMAIN us)

\* the account of the example scenario
ScenarioAccount ==
    [username |-> <<"kavleen">>, email |-> <<"k", "@example.com">>,
     password |-> "pw123"]

RegisterAccount ==
    \E id \in FreshIds(users), salt \in Salts :
        LET data == ScenarioAccount
            r == RegisterRoute(users, data, salt, id, now, TRUE)
        IN  /\ users' = r.users
            /\ last' = [op |-> "register", data |-> data,
                        resp |-> r.resp, svc |-> r.svc]
            /\ UNCHANGED <<inflight, messages, sessions, now>>

Replace ==
    \E uid \in PrefUserIds, prefs \in ReplaceChoices :
        LET r == update_user_preferences(users, uid, prefs, now, TRUE)
        IN  /\ StoreSize(r.users) <= MaxPrefEntries
            /\ users' = r.users
            /\ last' = [op |-> "replace", user_id |-> uid,
                        preferences |-> prefs, ok |-> r.ok]
            /\ UNCHANGED <<inflight, messages, sessions, now>>

AddOne ==
    \E uid \in PrefUserIds, category \in AddCategories, value \in PrefValues :
        LET r == add_preference(users, uid, category, value, now, TRUE)
        IN  /\ StoreSize(r.users) <= MaxPrefEntries
            /\ users' = r.users
            /\ last' = [op |-> "add_one", user_id |-> uid,
                        category |-> category, value |-> value, ok |-> r.ok]
            /\ UNCHANGED <<inflight, messages, sessions, now>>

GetPreferences ==
    \E uid \in PrefUserIds :
        /\ last' = [op |-> "get", user_id |-> uid,
                    preferences |-> get_user_preferences(users, uid, TRUE)]
        /\ UNCHANGED <<inflight, users, messages, sessions, now>>

NextPrefs == RegisterAccount \/ Replace \/ AddOne \/ GetPreferences

SpecPrefs == Init /\ [][NextPrefs]_vars

(***************************************************************************)
(* The HTTP surface behind @token_required.  The server starts at some     *)
(* wall-clock time; requests carry any Authorization header: none, a       *)
(* token generate_token issued (just now, or long enough ago to be about   *)
(* to expire, expiring now, or expired), bare or behind 'Bearer ', a token *)
(* signed with another key, a token whose payload was swapped, a token     *)
(* behind a lower-case prefix, or something that is no token.              *)
(***************************************************************************)
HttpUserIds == {1, 2}
StartTime == JwtExpires + 1

\* tokens as generate_token issues them at time t0, bare or behind 'Bearer '
Issued(user_id, t0) == generate_token(user_id, t0)
WithBearer(token) == Bearer \o token

Headers(t) ==
    {Issued(1, t),
     WithBearer(Issued(2, t)),
     Issued(1, t - JwtExpires),
     jwt_encode([user_id |-> 1, exp |-> t + JwtExpires], OtherKey),
     Tampered(Issued(1, t), 2),
     <<"x">>,
     NoHeader}

\* the chat requests of this surface store their exchange under one
\* document id
HttpMessageIds == {1}
ClientSessions == Uuids \cup {DefaultSession}
ChatBodies ==
    [message : {"hi"}] \cup [message : {"hi"}, session_id : Uuids]
PreferenceBodies ==
    {[preferences |-> ScenarioPreferences], [preferences |-> EmptyDict]}

InitHttp ==
    /\ users = <<>>
    /\ messages = {}
    /\ sessions = {}
    /\ now = StartTime
    /\ last = [op |-> "init"]
    /\ inflight = {}

\* one request to a protected route: the wrapper runs, then the view
\* Handler(current_user_id), which yields [resp, users, messages, sessions]
Serve(op, header, Handler(_)) ==
    LET gate == TokenRequired(header, now)
    IN  IF ~gate.ok
        THEN /\ last' = [op |-> op, header |-> header, resp |-> gate.resp]
             /\ UNCHANGED <<inflight, users, messages, sessions, now>>
        ELSE LET out == Handler(gate.current_user_id)
             IN  /\ last' = [op |-> op, header |-> header, resp |-> out.resp,
                             actor |-> gate.current_user_id]
                 /\ users' = out.users
                 /\ messages' = out.messages
                 /\ sessions' = out.sessions
                 /\ UNCHANGED <<inflight, now>>

ProfileReq ==
    \E header \in Headers(now) :
        LET View(uid) == [resp |-> ProfileRoute(users, uid, TRUE).resp,
                          users |-> users, messages |-> messages,
                          sessions |-> sessions]
        IN  Serve("GET /api/profile", header, View)

GetPreferencesReq ==
    \E header \in Headers(now) :
        LET View(uid) == [resp |-> GetPreferencesRoute(users, uid, TRUE),
                          users |-> users, messages |-> messages,
                          sessions |-> sessions]
        IN  Serve("GET /api/preferences", header, View)

PutPreferencesReq ==
    \E header \in Headers(now), data \in PreferenceBodies :
        LET View(uid) ==
                LET r == UpdatePreferencesRoute(users, uid, data, now, TRUE)
                IN  [resp |-> r.resp, users |-> r.users,
                     messages |-> messages, sessions |-> sessions]
        IN  Serve("PUT /api/preferences", header, View)

ChatReq ==
    \E header \in Headers(now), data \in ChatBodies,
       agent \in AgentOutcomes, id \in HttpMessageIds :
        LET View(uid) ==
                LET r == ChatRoute(messages, sessions, uid, data, agent,
                                   now, id, TRUE)
                IN  [resp |-> r.resp, users |-> users,
                     messages |-> r.messages, sessions |-> sessions]
        IN  /\ Serve("POST /api/chat", header, View)
            /\ \/ id \in FreshMessageIds(messages)
               \/ messages' = messages

ChatHistoryReq ==
    \E header \in Headers(now) :
        LET View(uid) == [resp |-> ChatHistoryRoute(messages, uid, TRUE),
                          users |-> users, messages |-> messages,
                          sessions |-> sessions]
        IN  Serve("GET /api/chat/history", header, View)

ClearChatHistoryReq ==
    \E header \in Headers(now) :
        LET View(uid) ==
                LET r == ClearChatHistoryRoute(messages, uid, TRUE)
                IN  [resp |-> r.resp, users |-> users,
                     messages |-> r.messages, sessions |-> sessions]
        IN  Serve("DELETE /api/chat/history", header, View)

CreateSessionReq ==
    \E header \in Headers(now), uuid \in Uuids :
        LET View(uid) ==
                LET r == CreateSessionRoute(sessions, uid, <<"lunch">>, uuid,
                                            now, TRUE)
                IN  [resp |-> r.resp, users |-> users,
                     messages |-> messages, sessions |-> r.sessions]
        IN  /\ Serve("POST /api/sessions", header, View)
            /\ \/ uuid \in FreshUuids(messages, sessions)
               \/ sessions' = sessions

DeleteSessionReq ==
    \E header \in Headers(now), session_id \in ClientSessions :
        LET View(uid) ==
                LET r == DeleteSessionRoute(messages, sessions, uid,
                                            session_id, TRUE)
                IN  [resp |-> r.resp, users |-> users,
                     messages |-> r.messages, sessions |-> r.sessions]
        IN  Serve("DELETE /api/sessions/<id>", header, View)

ClearSessionHistoryReq ==
    \E header \in Headers(now), session_id \in ClientSessions :
        LET View(uid) ==
                LET r == ClearSessionHistoryRoute(messages, uid, session_id, TRUE)
                IN  [resp |-> r.resp, users |-> users,
                     messages |-> r.messages, sessions |-> sessions]
        IN  Serve("DELETE /api/sessions/<id>/history", header, View)

NextHttp ==
    \/ RegisterAccount
    \/ ProfileReq
    \/ GetPreferencesReq
    \/ PutPreferencesReq
    \/ ChatReq
    \/ ChatHistoryReq
    \/ ClearChatHistoryReq
    \/ CreateSessionReq
    \/ DeleteSessionReq
    \/ ClearSessionHistoryReq

SpecHttp == InitHttp /\ [][NextHttp]_vars

(***************************************************************************)
(* The mandatory-field checks on their own.  A preferences dict is stored  *)
(* for user 1 (each mandatory field absent, an empty or non-empty list, or *)
(* an empty or non-empty string; with or without a custom list), then read *)
(* back and handed to get_missing_mandatory_preferences and to             *)
(* has_complete_preferences, as the preference tools do.                   *)
(***************************************************************************)
FieldValues ==
    {PyList(<<>>), PyList(<<Vegetarian>>), PyList(<<Vegetarian, NoneValue>>),
     PyScalar(<<>>), PyScalar(Indian)}
Absent == [absent |-> TRUE]

\* the dict that holds choice[k] under every key k not chosen Absent
DictOf(choice) ==
    LET keys == {k \in DOMAIN choice : choice[k] # Absent}
    IN  IF keys = {} THEN EmptyDict ELSE [k \in keys |-> choice[k]]

PreferenceStructures ==
    {DictOf(choice) :
        choice \in [{"restrictions", "allergies", "cuisine_preferences"}
                        -> FieldValues \cup {Absent}]}
    \cup {DictOf(choice) @@ [custom |-> PyList(<<>>)] :
        choice \in [{"restrictions", "allergies", "cuisine_preferences"}
                        -> FieldValues \cup {Absent}]}

InitMissing ==
    /\ \E prefs \in PreferenceStructures :
          users = update_user_preferences(<<>>, 1, prefs, 0, TRUE).users
    /\ messages = {}
    /\ sessions = {}
    /\ now = 0
    /\ last = [op |-> "init"]
    /\ inflight = {}

MissingMandatory ==
    LET prefs == get_user_preferences(users, 1, TRUE)
    IN  /\ last' = [op |-> "missing_mandatory", preferences |-> prefs,
                    result |-> get_missing_mandatory_preferences(prefs)]
        /\ UNCHANGED <<inflight, users, messages, sessions, now>>

IsComplete ==
    LET prefs == get_user_preferences(users, 1, TRUE)
    IN  /\ last' = [op |-> "is_complete", preferences |-> prefs,
                    result |-> has_complete_preferences(prefs)]
        /\ UNCHANGED <<inflight, users, messages, sessions, now>>

NextMissing == MissingMandatory \/ IsComplete

SpecMissing == InitMissing /\ [][NextMissing]_vars

(***************************************************************************)
(* The chat history service and the chat service called for two users:     *)
(* save_message, send (POST /api/chat behind the token check),             *)
(* get_conversation_history, clear_conversation_history,                   *)
(* get_user_sessions, create_session, delete_session and session_exists.   *)
(* A call that stores an exchange takes time: the clock reading of the     *)
(* next one is later.  At most MaxMessages exchanges are stored in a run;  *)
(* document ids are interchangeable, so the store hands out the least      *)
(* unused one.                                                             *)
(***************************************************************************)
ChatUserIds == {1, 2}
SessionArgs == {NoSession, DefaultSession} \cup Uuids
LeastFresh(msgs) ==
    CHOOSE id \in FreshMessageIds(msgs) :
        \A other \in FreshMessageIds(msgs) : id <= other
\* the request text of the exchange stored at clock reading t
TextAt(t) == IF t % 2 = 0 THEN "hi" ELSE "what should I eat?"
SavedReply == "Try dal and rice."

SaveMessage ==
    \E uid \in ChatUserIds, session_id \in SessionArgs :
        LET r == save_message(messages, uid, TextAt(now), SavedReply,
                              session_id, now, LeastFresh(messages), TRUE)
        IN  /\ now < MaxMessages
            /\ messages' = r.messages
            /\ now' = now + 1
            /\ last' = [op |-> "save", user_id |-> uid,
                        session_id |-> session_id, message |-> TextAt(now),
                        response |-> SavedReply, ok |-> r.ok]
            /\ UNCHANGED <<inflight, users, sessions>>

SendMessage ==
    \E uid \in ChatUserIds, session_id \in SessionArgs, agent \in AgentOutcomes :
        LET data == IF session_id = NoSession THEN [message |-> TextAt(now)]
                    ELSE [message |-> TextAt(now), session_id |-> session_id]
            r == ChatRoute(messages, sessions, uid, data, agent, now,
                           LeastFresh(messages), TRUE)
        IN  /\ now < MaxMessages
            /\ messages' = r.messages
            /\ now' = now + 1
            /\ last' = [op |-> "send", user_id |-> uid, data |-> data,
                        agent |-> agent, resp |-> r.resp,
                        history |-> agent_history(messages, sessions, uid,
                                                  session_id, TRUE),
                        is_new_session |->
                            process_message(messages, sessions, uid,
                                            TextAt(now), session_id, agent, now,
                                            LeastFresh(messages),
                                            TRUE).is_new_session]
            /\ UNCHANGED <<inflight, users, sessions>>

History ==
    \E uid \in ChatUserIds, session_id \in SessionArgs, limit \in 1..MaxMessages :
        /\ last' = [op |-> "history", user_id |-> uid,
                    session_id |-> session_id, limit |-> limit,
                    result |-> get_conversation_history(messages, uid,
                                                        session_id, limit, TRUE)]
        /\ UNCHANGED <<inflight, users, messages, sessions, now>>

Clear ==
    \E uid \in ChatUserIds, session_id \in SessionArgs :
        LET r == clear_conversation_history(messages, uid, session_id, TRUE)
        IN  /\ messages' = r.messages
            /\ last' = [op |-> "clear", user_id |-> uid,
                        session_id |-> session_id, ok |-> r.ok]
            /\ UNCHANGED <<inflight, users, sessions, now>>

Sessions ==
    \E uid \in ChatUserIds :
        /\ last' = [op |-> "sessions", user_id |-> uid,
                    result |-> get_user_sessions(messages, uid, TRUE)]
        /\ UNCHANGED <<inflight, users, messages, sessions, now>>

CreateSession ==
    \E uid \in ChatUserIds, uuid \in FreshUuids(messages, sessions) :
        LET r == create_session(sessions, uid, <<"lunch">>, uuid, now, TRUE)
        IN  /\ sessions' = r.sessions
            /\ last' = [op |-> "create_session", user_id |-> uid,
                        created |-> r.created, session_id |-> r.session_id]
            /\ UNCHANGED <<inflight, users, messages, now>>

DeleteSession ==
    \E uid \in ChatUserIds, session_id \in SessionArgs \ {NoSession} :
        LET r == delete_session(messages, sessions, uid, session_id, TRUE)
        IN  /\ messages' = r.messages
            /\ sessions' = r.sessions
            /\ last' = [op |-> "delete_session", user_id |-> uid,
                        session_id |-> session_id, ok |-> r.ok]
            /\ UNCHANGED <<inflight, users, now>>

SessionExists ==
    \E uid \in ChatUserIds, session_id \in SessionArgs \ {NoSession} :
        /\ last' = [op |-> "session_exists", user_id |-> uid,
                    session_id |-> session_id,
                    result |-> session_exists(messages, sessions, uid,
                                              session_id, TRUE)]
        /\ UNCHANGED <<inflight, users, messages, sessions, now>>

NextChat ==
    \/ SaveMessage
    \/ SendMessage
    \/ History
    \/ Clear
    \/ Sessions
    \/ CreateSession
    \/ DeleteSession
    \/ SessionExists

SpecChat == Init /\ [][NextChat]_vars

(***************************************************************************)
(* The chat-history endpoints over a document store that may fail: a       *)
(* request is served either with the store answering or with every store   *)
(* call of the request raising.                                            *)
(***************************************************************************)
GetChatHistory ==
    \E uid \in ChatUserIds, up \in BOOLEAN :
        /\ last' = [op |-> "GET /api/chat/history", user_id |-> uid,
                    up |-> up,
                    resp |-> ChatHistoryRoute(messages, uid, up)]
        /\ UNCHANGED <<inflight, users, messages, sessions, now>>

ClearChatHistory ==
    \E uid \in ChatUserIds, up \in BOOLEAN :
        LET r == ClearChatHistoryRoute(messages, uid, up)
        IN  /\ messages' = r.messages
            /\ last' = [op |-> "DELETE /api/chat/history", user_id |-> uid,
                        up |-> up, resp |-> r.resp]
            /\ UNCHANGED <<inflight, users, sessions, now>>

NextOutage ==
    \/ SaveMessage
    \/ GetChatHistory
    \/ ClearChatHistory

SpecOutage == Init /\ [][NextOutage]_vars

(***************************************************************************)
(* Search over stored exchanges whose texts are sequences of characters.   *)
(***************************************************************************)
\* the request text of the exchange stored at clock reading t, and the reply
RequestTextAt(t) ==
    IF t % 2 = 0 THEN <<"D", "a", "l">> ELSE <<"r", "i", "c", "e">>
ReplyText == <<"d", "a", "l", " ", "f", "r", "y">>
Queries == {<<"d", "A", "l">>, <<"R", "I">>, <<"z">>}

SaveText ==
    \E uid \in ChatUserIds, session_id \in {NoSession} \cup Uuids :
        LET message == RequestTextAt(now)
            response == ReplyText
            r == save_message(messages, uid, message, response, session_id,
                              now, LeastFresh(messages), TRUE)
        IN  /\ now < MaxMessages
            /\ messages' = r.messages
            /\ now' = now + 1
            /\ last' = [op |-> "save", user_id |-> uid,
                        session_id |-> session_id, message |-> message,
                        response |-> response, ok |-> r.ok]
            /\ UNCHANGED <<inflight, users, sessions>>

Search ==
    \E uid \in ChatUserIds, query \in Queries, limit \in 1..MaxMessages :
        /\ last' = [op |-> "search", user_id |-> uid, query |-> query,
                    limit |-> limit,
                    result |-> search_conversation(messages, uid, query,
                                                   limit, TRUE)]
        /\ UNCHANGED <<inflight, users, messages, sessions, now>>

NextSearch ==
    \/ SaveText
    \/ Search

SpecSearch == Init /\ [][NextSearch]_vars

(***************************************************************************)
(* Accounts next to the operations that are not about accounts: two people *)
(* register and log in while preferences are replaced and added for user   *)
(* ids with or without a document, and exchanges and sessions come and go. *)
(***************************************************************************)
\* the second account's email is one a person can type; it has the shape of
\* the email update_user_preferences gives a User shell
AccountBodies ==
    {ScenarioAccount,
     [username |-> <<"one">>, email |-> ShellEmail(1), password |-> "hunter2"]}

RegisterAny ==
    \E id \in FreshIds(users), salt \in Salts, data \in AccountBodies :
        LET r == RegisterRoute(users, data, salt, id, now, TRUE)
        IN  /\ users' = r.users
            /\ last' = [op |-> "register", data |-> data,
                        resp |-> r.resp, svc |-> r.svc]
            /\ UNCHANGED <<inflight, messages, sessions, now>>

LoginAccount ==
    \E account \in AccountBodies :
        LET data == [email |-> account.email, password |-> account.password]
            r == LoginRoute(users, data, now, TRUE)
        IN  /\ last' = [op |-> "login", data |-> data,
                        resp |-> r.resp, svc |-> r.svc]
            /\ UNCHANGED <<inflight, users, messages, sessions, now>>

NextAccount ==
    \/ RegisterAny
    \/ LoginAccount
    \/ Replace
    \/ AddOne
    \/ CreateSession
    \/ DeleteSession

SpecAccount == Init /\ [][NextAccount]_vars

(***************************************************************************)
(* Registration served to several clients at once.  The server handles     *)
(* each request on its own thread and register_user makes two store calls  *)
(* with no transaction around them, so another request's store calls can   *)
(* fall between the lookup and the write.                                  *)
(***************************************************************************)
Clients == {"client-1", "client-2"}
RaceAccounts ==
    {ScenarioAccount,
     [username |-> <<"kavleen">>, email |-> <<"a", "@example.com">>,
      password |-> "hunter2"]}
Waiting(op) == {req \in inflight : req.op = op}
Idle(client) == \A req \in inflight : req.client # client

RegisterLookup ==
    \E client \in Clients, data \in RaceAccounts :
        LET checked == register_lookup(users, data.email, TRUE)
        IN  /\ Idle(client)
            /\ Cardinality(DOMAIN users) + Cardinality(Waiting("register"))
                  < MaxUsers
            /\ IF checked.raised
               THEN /\ last' = [op |-> "register", client |-> client,
                                data |-> data, svc |-> checked]
                    /\ UNCHANGED inflight
               ELSE /\ last' = [op |-> "register_lookup", client |-> client,
                                data |-> data]
                    /\ inflight' = inflight
                          \cup {[client |-> client, op |-> "register",
                                 data |-> data]}
            /\ UNCHANGED <<users, messages, sessions, now>>

RegisterWrite ==
    \E req \in Waiting("register"), id \in FreshIds(users), salt \in Salts :
        LET r == register_write(users, req.data.username, req.data.email,
                                req.data.password, salt, id, now, TRUE)
        IN  /\ users' = r.users
            /\ inflight' = inflight \ {req}
            /\ last' = [op |-> "register", client |-> req.client,
                        data |-> req.data, svc |-> r.out]
            /\ UNCHANGED <<messages, sessions, now>>

\* add_one served to several clients at once: add_preference reads the
\* stored preferences, builds the new dict in memory and hands it to
\* update_user_preferences, which writes the whole 'preferences' field
RaceUserIds == {1}
RaceCategories == {"restrictions", "allergies"}

AddRead ==
    \E client \in Clients, uid \in RaceUserIds,
       category \in RaceCategories, value \in PrefValues :
        LET added == add_preference_read(users, uid, category, value, TRUE)
        IN  /\ Idle(client)
            /\ StoreSize(users) + Cardinality(Waiting("add_one"))
                  < MaxPrefEntries
            /\ IF added.raised
               THEN /\ last' = [op |-> "add_one", client |-> client,
                                user_id |-> uid, category |-> category,
                                value |-> value, ok |-> FALSE]
                    /\ UNCHANGED inflight
               ELSE /\ last' = [op |-> "add_one_read", client |-> client,
                                user_id |-> uid, category |-> category,
                                value |-> value]
                    /\ inflight' = inflight
                          \cup {[client |-> client, op |-> "add_one",
                                 user_id |-> uid, category |-> category,
                                 value |-> value,
                                 preferences |-> added.value]}
            /\ UNCHANGED <<users, messages, sessions, now>>

AddWrite ==
    \E req \in Waiting("add_one") :
        LET r == update_user_preferences(users, req.user_id, req.preferences,
                                         now, TRUE)
        IN  /\ users' = r.users
            /\ inflight' = inflight \ {req}
            /\ last' = [op |-> "add_one", client |-> req.client,
                        user_id |-> req.user_id, category |-> req.category,
                        value |-> req.value, ok |-> r.ok]
            /\ UNCHANGED <<messages, sessions, now>>

NextRace ==
    \/ RegisterLookup
    \/ RegisterWrite
    \/ AddRead
    \/ AddWrite

SpecRace == Init /\ [][NextRace]_vars

(***************************************************************************)
(* Two users side by side: each saves exchanges, under the same session    *)
(* ids as the other, and reads, searches, summarises, clears and deletes.  *)
(***************************************************************************)
Summary ==
    \E uid \in ChatUserIds :
        /\ last' = [op |-> "summary", user_id |-> uid,
                    result |-> get_conversation_summary(messages, uid, TRUE)]
        /\ UNCHANGED <<inflight, users, messages, sessions, now>>

NextIsolation ==
    \/ SaveText
    \/ History
    \/ Search
    \/ Sessions
    \/ Summary
    \/ Clear
    \/ DeleteSession

SpecIsolation == Init /\ [][NextIsolation]_vars

(***************************************************************************)
(* Properties.  Every action records the request it served and the answer  *)
(* it gave in `last`; a property of an operation is a property of the      *)
(* steps that record it.                                                   *)
(***************************************************************************)
ThirtyDays == 30 * 24 * 60 * 60
InvalidToken == Raise("ValueError", "Token is invalid")

\* the request recorded by the step is a complete POST body for op
Complete(rec, op, keys) ==
    /\ rec.op = op
    /\ \A k \in keys : Given(rec.data, k)

\* the plain password a stored account was registered with
RegisteredPassword(doc) == doc.password.digest[2]

\* C1: the first register of an email that no stored user has succeeds (201)
\* and returns an id no stored user had; a register of an email that a stored
\* user has fails with ValueError 'Email already registered', HTTP 400, and
\* writes no user document.
C1_DuplicateEmailRejected ==
    [][Complete(last', "register", {"username", "email", "password"}) =>
         IF WhereEmail(users, last'.data.email) = {}
         THEN /\ last'.resp.status = 201
              /\ last'.resp.body.user.id \notin DOMAIN users
              /\ last'.resp.body.user.id \in DOMAIN users'
         ELSE /\ last'.svc = Raise("ValueError", "Email already registered")
              /\ last'.resp = ErrorResponse(400, "Email already registered")
              /\ users' = users]_vars

\* C2 (as stated): a login with a registered user's email and any password
\* other than the registered one fails with ValueError 'Invalid credentials',
\* HTTP 401, and issues no token.
C2_AnyWrongPassword ==
    [][(/\ last'.op = "login"
        /\ Given(last'.data, "email")
        /\ Has(last'.data, "password")
        /\ \E id \in DOMAIN users :
              /\ users[id].email = last'.data.email
              /\ RegisteredPassword(users[id]) # last'.data.password)
       => /\ last'.svc = Raise("ValueError", "Invalid credentials")
          /\ last'.resp = ErrorResponse(401, "Invalid credentials")]_vars

\* C2 (amended): a login with a registered user's email and any non-empty
\* password other than the registered one fails with ValueError 'Invalid
\* credentials', HTTP 401, and issues no token; with an empty password the
\* route answers 400 'Email and password are required' without calling
\* login_user; either way the store is unchanged.
C2_WrongPasswordRejected ==
    [][(/\ last'.op = "login"
        /\ Given(last'.data, "email")
        /\ Has(last'.data, "password")
        /\ \E id \in DOMAIN users :
              /\ users[id].email = last'.data.email
              /\ RegisteredPassword(users[id]) # last'.data.password)
       => /\ users' = users
          /\ IF last'.data.password # NoText
             THEN /\ last'.svc = Raise("ValueError", "Invalid credentials")
                  /\ last'.resp = ErrorResponse(401, "Invalid credentials")
             ELSE /\ last'.svc = NoError
                  /\ last'.resp =
                        ErrorResponse(400, "Email and password are required")]_vars

C2_Witness ==
    /\ last.op = "login"
    /\ Given(last.data, "email") /\ Given(last.data, "password")
    /\ \E id \in DOMAIN users :
          /\ users[id].email = last.data.email
          /\ RegisteredPassword(users[id]) # last.data.password
    /\ last.resp.status = 401

\* C3: a login with an email that no stored user has fails with the same
\* 'Invalid credentials' error, HTTP 401, as a login with a wrong password.
C3_UnknownEmailRejected ==
    [][(/\ Complete(last', "login", {"email", "password"})
        /\ WhereEmail(users, last'.data.email) = {})
       => last'.resp = ErrorResponse(401, "Invalid credentials")]_vars

\* C4: a token generate_token issued for user u verifies, before its expiry,
\* to u, bare and behind 'Bearer ' alike; the token of a successful login
\* verifies to the id of the stored user with the email logged in with.
C4_TokenRoundTrip ==
    [][/\ (/\ last'.op = "verify"
           /\ last'.kind = "issued"
           /\ now' < last'.issued_at + ThirtyDays)
          => last'.result = Return(last'.user_id)
       /\ (last'.op = "login" /\ last'.resp.status = 200)
          => \E id \in DOMAIN users :
                /\ users[id].email = last'.data.email
                /\ verify_token(last'.resp.body.token, now') = Return(id)
                /\ verify_token(Bearer \o last'.resp.body.token, now')
                      = Return(id)]_vars

C4_Witness ==
    /\ last.op = "verify"
    /\ last.kind = "issued"
    /\ last.prefix = Bearer
    /\ last.issued_at < now
    /\ last.result = Return(last.user_id)

\* C5: a token issued at time t carries the expiry t + 2,592,000 s, which is
\* also the expires_in of a login; verify_token accepts it at every time
\* before that expiry and rejects it with 'Token is invalid' at every time
\* after it; a token whose signature does not match the secret and the
\* payload is rejected.
C5_TokenExpiry ==
    [][/\ (last'.op = "verify" /\ last'.kind = "issued")
          => LET exp == last'.token[Len(last'.prefix) + 2].exp
             IN  /\ exp = last'.issued_at + ThirtyDays
                 /\ now' < exp => last'.result = Return(last'.user_id)
                 /\ now' > exp => last'.result = InvalidToken
       /\ (last'.op = "verify" /\ last'.kind \in {"forged", "tampered"})
          => last'.result = InvalidToken
       /\ (last'.op = "login" /\ last'.resp.status = 200)
          => /\ last'.resp.body.expires_in = ThirtyDays
             /\ last'.resp.body.token[2].exp = now' + ThirtyDays]_vars

C5_Witness ==
    /\ last.op = "verify"
    /\ last.kind = "issued"
    /\ now > last.issued_at + ThirtyDays
    /\ last.result = InvalidToken

\* C6: behind @token_required the view runs only when verify_token accepts
\* the Authorization header, it is called with the user id embedded in that
\* token, and it changes documents of that user only; a request without a
\* header or with a rejected one is answered 401 and changes no user,
\* preference, message or session document.
ProtectedOps ==
    {"GET /api/profile", "GET /api/preferences", "PUT /api/preferences",
     "POST /api/chat", "GET /api/chat/history", "DELETE /api/chat/history",
     "POST /api/sessions", "DELETE /api/sessions/<id>",
     "DELETE /api/sessions/<id>/history"}
Rejected(t) ==
    {Issued(1, t - JwtExpires),
     jwt_encode([user_id |-> 1, exp |-> t + JwtExpires], OtherKey),
     Tampered(Issued(1, t), 2), <<"x">>, NoHeader}
OthersUntouched(u) ==
    /\ DOMAIN users' \ {u} = DOMAIN users \ {u}
    /\ \A id \in DOMAIN users \ {u} : users'[id] = users[id]
    /\ {m \in messages' : m.user_id # u} = {m \in messages : m.user_id # u}
    /\ {d \in sessions' : d.user_id # u} = {d \in sessions : d.user_id # u}
C7_ProfileNotFound ==
    [][last'.op = "profile" =>
         IF last'.user_id \notin DOMAIN users
         THEN /\ last'.svc = Raise("ValueError", "User not found")
              /\ last'.resp = ErrorResponse(404, "User not found")
         ELSE /\ last'.resp.status = 200
              /\ DOMAIN last'.resp.body.user
                    = {"id", "username", "email", "created_at"}
              /\ last'.resp.body.user.id = last'.user_id]_vars

\* C8: after a successful replace(u, P), get(u) is exactly P, whether or not
\* u had a User document (a shell is created when it had none), and stays P
\* through every step that is no replace or add_one for u; the preferences
\* of every other user are unchanged by the replace.
C8_ReplaceRoundTrip ==
    [][/\ (last'.op = "replace" /\ last'.ok)
          => LET u == last'.user_id
             IN  /\ get_user_preferences(users', u, TRUE) = last'.preferences
                 /\ u \notin DOMAIN users
                    => /\ users'[u].username = ShellUsername(u)
                       /\ users'[u].email = ShellEmail(u)
                 /\ \A v \in UserIds \ {u} :
                       get_user_preferences(users', v, TRUE)
                          = get_user_preferences(users, v, TRUE)
       /\ \A u \in DOMAIN users :
             ~(last'.op \in {"replace", "add_one"} /\ last'.user_id = u)
             => get_user_preferences(users', u, TRUE)
                   = get_user_preferences(users, u, TRUE)]_vars

C8_Witness ==
    /\ last.op = "replace"
    /\ last.ok
    /\ last.preferences = [restrictions |-> PyList(<<Vegetarian>>)]
    /\ users[last.user_id].username = ShellUsername(last.user_id)
    /\ get_user_preferences(users, last.user_id, TRUE) = last.preferences
    /\ \E v \in DOMAIN users \ {last.user_id} :
          /\ "preferences" \in DOMAIN users[v]
          /\ DOMAIN users[v].preferences # {}

\* number of occurrences of x in a list
Occurrences(x, seq) == Cardinality({i \in 1..Len(seq) : seq[i] = x})

\* C9: add_one is idempotent: applying add_one(u, c, v) again right after a
\* successful add_one(u, c, v) leaves the stored preferences as they are,
\* with one occurrence of the value, also when c is no key of the stored
\* preferences and the value is recorded in the custom list.
C9_AddOneIdempotent ==
    [][(last'.op = "add_one" /\ last'.ok)
       => LET u == last'.user_id
              c == last'.category
              v == last'.value
              once == get_user_preferences(users', u, TRUE)
              again == add_preference(users', u, c, v, now, TRUE)
              twice == get_user_preferences(again.users, u, TRUE)
          IN  /\ twice = once
              /\ c \in DOMAIN once
                 => (IsList(once[c]) => Occurrences(v, once[c].list) = 1)
              /\ c \notin DOMAIN once
                 => Occurrences(CustomEntry(c, v), twice.custom.list) = 1]_vars

\* C10: after a successful add_one(u, c, v) with c one of restrictions,
\* allergies, cuisine_preferences, v is a member of get(u)[c] and c is not
\* reported by missing_mandatory, whatever was stored for u before; only
\* other categories are appended to the custom list as "category: value".
C10_MandatoryAddLands ==
    [][(last'.op = "add_one" /\ last'.ok)
       => LET u == last'.user_id
              c == last'.category
              v == last'.value
              before == get_user_preferences(users, u, TRUE)
              after == get_user_preferences(users', u, TRUE)
              custom(p) == IF p # None /\ "custom" \in DOMAIN p /\ IsList(p.custom)
                           THEN p.custom.list ELSE <<>>
          IN  IF InList(c, MandatoryFields)
              THEN /\ c \in DOMAIN after
                   /\ IsList(after[c]) /\ InList(v, after[c].list)
                   /\ ~InList(c, get_missing_mandatory_preferences(after).value)
                   /\ custom(after) = custom(before)
              ELSE InList(CustomEntry(c, v), custom(after))]_vars

\* the elements of a list, and whether it lists each of them once
Elements(seq) == {seq[i] : i \in 1..Len(seq)}
NoRepeats(seq) == Cardinality(Elements(seq)) = Len(seq)
\* the mandatory categories that are absent from p or empty in p
AbsentOrEmpty(p) ==
    {c \in {"restrictions", "allergies", "cuisine_preferences"} :
        \/ c \notin DOMAIN p
        \/ IsList(p[c]) /\ p[c].list = <<>>
        \/ ~IsList(p[c]) /\ p[c].scalar = <<>>}

\* C11: missing_mandatory(p) lists exactly the categories among restrictions,
\* allergies, cuisine_preferences that are absent from p or empty in p (all
\* three for the empty structure, none when all three are non-empty), and
\* is_complete(p) is true iff that list is empty.
C11_MissingMandatory ==
    [][/\ last'.op = "missing_mandatory"
          => /\ ~last'.result.raised
             /\ Elements(last'.result.value) = AbsentOrEmpty(last'.preferences)
             /\ NoRepeats(last'.result.value)
             /\ DOMAIN last'.preferences = {}
                => Elements(last'.result.value)
                      = {"restrictions", "allergies", "cuisine_preferences"}
       /\ last'.op = "is_complete"
          => last'.result
                = Return(get_missing_mandatory_preferences(last'.preferences).value
                            = <<>>)]_vars

C11_Witness ==
    /\ last.op = "missing_mandatory"
    /\ last.preferences = [restrictions |-> PyList(<<Vegetarian>>),
                           allergies |-> PyList(<<>>)]
    /\ last.result = Return(<<"allergies", "cuisine_preferences">>)

\* C12: get(user_id) returns the stored preferences when the user has some,
\* and the empty structure otherwise: for a User document without
\* preferences and for a user id without a User document.
C12_GetOrEmpty ==
    [][last'.op = "get"
       => LET u == last'.user_id
          IN  last'.preferences =
                 IF u \in DOMAIN users /\ "preferences" \in DOMAIN users[u]
                 THEN users[u].preferences
                 ELSE EmptyDict]_vars

\* the stored Messages of one user under one session id
MessagesOf(msgs, u, sid) == {m \in msgs : m.user_id = u /\ m.session_id = sid}

\* C13: after N successful saves for one user and session, history(user,
\* session, limit) with limit >= N returns exactly those N exchanges, each
\* with its request and reply text, oldest first, and no exchange of another
\* session or user.
C13_HistoryRoundTrip ==
    [][(/\ last'.op = "history"
        /\ last'.session_id # NoSession
        /\ last'.limit >= Cardinality(MessagesOf(messages, last'.user_id,
                                                 last'.session_id)))
       => LET saved == MessagesOf(messages, last'.user_id, last'.session_id)
              result == last'.result
          IN  /\ Len(result) = Cardinality(saved)
              /\ \A i \in 1..Len(result) :
                    \E m \in saved :
                       /\ result[i].id = m.id
                       /\ result[i].user_message = m.user_message
                       /\ result[i].assistant_response = m.assistant_response
                       /\ result[i].session_id = last'.session_id
              /\ \A i, j \in 1..Len(result) :
                    i < j => result[i].timestamp < result[j].timestamp]_vars

C13_Witness ==
    /\ last.op = "history"
    /\ last.session_id \in Uuids
    /\ Len(last.result) = 2
    /\ last.result[1].user_message = "hi"
    /\ last.result[2].user_message = "what should I eat?"

\* C14: clear(user, session) with a session id given deletes every Message
\* of that user with that session id and no other Message; afterwards
\* history(user, session) is empty.
C14_ClearSession ==
    [][(last'.op = "clear" /\ last'.session_id # NoSession /\ last'.ok)
       => LET u == last'.user_id
              sid == last'.session_id
          IN  /\ MessagesOf(messages', u, sid) = {}
              /\ messages' = messages \ MessagesOf(messages, u, sid)
              /\ get_conversation_history(messages', u, sid, MaxMessages, TRUE)
                    = <<>>]_vars

\* a clear that removed one of two stored exchanges and left the same
\* user's exchange of another session
C14_Witness ==
    /\ last.op = "clear"
    /\ last.session_id \in Uuids
    /\ Cardinality(messages) = 1
    /\ \E m \in messages :
          /\ m.user_id = last.user_id
          /\ m.session_id = DefaultSession
          /\ m.id = 2

\* C15: after any sequence of save, clear and delete_session operations,
\* sessions(user) holds exactly one entry per session id that has a stored
\* Message of that user, and the entry's message_count is the number of
\* stored Messages of that user with that session id.
C15_SessionCounts ==
    [][last'.op = "sessions"
       => LET u == last'.user_id
              result == last'.result
              listed == {result[i].session_id : i \in 1..Len(result)}
          IN  /\ listed = {m.session_id : m \in {x \in messages : x.user_id = u}}
              /\ Cardinality(listed) = Len(result)
              /\ \A i \in 1..Len(result) :
                    result[i].message_count
                       = Cardinality(MessagesOf(messages, u,
                                                result[i].session_id))]_vars

\* two sessions of one user with one exchange each, next to nothing or
\* something of the other user
C15_Witness ==
    /\ last.op = "sessions"
    /\ Len(last.result) = 2
    /\ \A i \in 1..2 : last.result[i].message_count = 1

\* C16: in every reachable state session_exists(user, session) is true iff a
\* Message of that user carries that session id or a session-metadata
\* document for that user and session exists; so it is true right after
\* create_session(user) returned that session id.
C16_SessionExistsIff ==
    \A u \in ChatUserIds, sid \in SessionArgs \ {NoSession} :
        session_exists(messages, sessions, u, sid, TRUE)
        <=> \/ MessagesOf(messages, u, sid) # {}
            \/ \E d \in sessions : d.user_id = u /\ d.session_id = sid

C20_StoreFailureIs500 ==
    [][(last'.op \in {"GET /api/chat/history", "DELETE /api/chat/history"})
       => /\ ~last'.up => last'.resp.status >= 500
          /\ (last'.op = "DELETE /api/chat/history"
              /\ last'.resp.status = 200)
                => ~\E m \in messages' : m.user_id = last'.user_id
          /\ (last'.op = "GET /api/chat/history"
              /\ last'.resp.status = 200)
                => last'.up]_vars

\* C21: the conversation history that send gives the agent as context holds
\* only Messages of that user whose session id is the one the new exchange
\* is saved under (the given session id, or "default" when none is given).
C21_SessionScopedContext ==
    [][(last'.op = "send")
       => LET given == IF Has(last'.data, "session_id")
                       THEN last'.data.session_id ELSE NoSession
          IN  \A i \in 1..Len(last'.history) :
                 /\ last'.history[i].user_id = last'.user_id
                 /\ last'.history[i].session_id = OrDefault(given)]_vars

\* C22: history(user, session?, limit) returns at most limit Messages; when
\* more than limit are held the result is the limit most recently saved
\* ones, oldest first; with no session id it ranges over all sessions of the
\* user, with a session id over that session only.
C22_HistoryLimit ==
    [][(last'.op = "history")
       => LET u == last'.user_id
              sid == last'.session_id
              scope == IF sid = NoSession
                       THEN {m \in messages : m.user_id = u}
                       ELSE MessagesOf(messages, u, sid)
              result == last'.result
              returned == {result[i] : i \in 1..Len(result)}
          IN  /\ Len(result) <= last'.limit
              /\ Len(result) = IF Cardinality(scope) < last'.limit
                               THEN Cardinality(scope) ELSE last'.limit
              /\ returned \subseteq scope
              /\ \A i, j \in 1..Len(result) :
                    i < j => result[i].timestamp < result[j].timestamp
              /\ \A m \in scope \ returned :
                    \A r \in returned : m.timestamp < r.timestamp]_vars

C22_Witness ==
    /\ last.op = "history"
    /\ last.session_id = NoSession
    /\ last.limit = 1
    /\ Cardinality({m \in messages : m.user_id = last.user_id}) = 2
    /\ Cardinality({m.session_id : m \in messages}) = 2
    /\ Len(last.result) = 1
    /\ last.result[1].timestamp = 1

\* C23: for every entry returned by sessions(user), first_message is the
\* creation time of the earliest Message of that session, last_message and
\* last_activity that of the latest, and the entries are ordered by
\* last_activity descending.
C23_SessionTimes ==
    [][(last'.op = "sessions")
       => LET result == last'.result
          IN  /\ \A i \in 1..Len(result) :
                    LET of == MessagesOf(messages, last'.user_id,
                                         result[i].session_id)
                    IN  /\ \A m \in of :
                              /\ result[i].first_message <= m.timestamp
                              /\ result[i].last_message >= m.timestamp
                        /\ \E m \in of : result[i].first_message = m.timestamp
                        /\ \E m \in of : result[i].last_message = m.timestamp
                        /\ result[i].last_activity = result[i].last_message
              /\ \A i, j \in 1..Len(result) :
                    i < j => result[i].last_activity
                                >= result[j].last_activity]_vars

\* C24: search(user, query, limit) returns at most limit Messages of that
\* user, each containing the query case-insensitively in its request or
\* reply text, listed newest match first, the cap applied after that
\* ordering.
C24_SearchNewestFirst ==
    [][(last'.op = "search")
       => LET result == last'.result
              q == lower(last'.query)
              matches == {m \in messages :
                            /\ m.user_id = last'.user_id
                            /\ \/ Contains(q, lower(m.user_message))
                               \/ Contains(q, lower(m.assistant_response))}
              returned == {result[i] : i \in 1..Len(result)}
          IN  /\ Len(result) <= last'.limit
              /\ Len(result) = IF Cardinality(matches) < last'.limit
                               THEN Cardinality(matches) ELSE last'.limit
              /\ returned \subseteq matches
              /\ \A i, j \in 1..Len(result) :
                    i < j => result[i].timestamp > result[j].timestamp
              /\ \A m \in matches \ returned :
                    \A r \in returned : m.timestamp < r.timestamp]_vars

\* C25: once a Message of user U is saved under session S, S stays active:
\* after every later operation that is not a clear or delete_session by U
\* covering S, session_exists(U, S) is true and sessions(U) lists S.
C25_SessionStaysActive ==
    /\ [](\A m \in messages :
             LET listed == get_user_sessions(messages, m.user_id, TRUE)
             IN  /\ session_exists(messages, sessions, m.user_id,
                                   m.session_id, TRUE)
                 /\ \E i \in 1..Len(listed) :
                       listed[i].session_id = m.session_id)
    /\ [][\A m \in messages :
             ~(/\ last'.op \in {"clear", "delete_session"}
               /\ last'.user_id = m.user_id
               /\ last'.session_id \in {NoSession, m.session_id})
             => MessagesOf(messages', m.user_id, m.session_id) # {}]_vars

C25_Witness ==
    /\ last.op \in {"clear", "delete_session"}
    /\ last.ok
    /\ last.user_id = 2
    /\ last.session_id \in Uuids
    /\ now = MaxMessages
    /\ Cardinality(messages) = 1
    /\ \E m \in messages : m.user_id = 1 /\ m.session_id = last.session_id
    /\ session_exists(messages, sessions, 1, last.session_id, TRUE)

\* C26: process_message classifies the session of a request as existing iff
\* that session is active (a Message of the user carries its id, or its
\* metadata exists) and as new otherwise; a request with no session id or
\* with "default" is about the "default" session.
C26_NewIffNotActive ==
    [][(last'.op = "send")
       => LET u == last'.user_id
              tag == IF Has(last'.data, "session_id")
                     THEN OrDefault(last'.data.session_id) ELSE DefaultSession
              active == \/ MessagesOf(messages, u, tag) # {}
                        \/ \E d \in sessions :
                              d.user_id = u /\ d.session_id = tag
          IN  last'.is_new_session = ~active]_vars

\* C27: no preference, chat, history or session operation deletes a User
\* document or changes the username, email, password hash or creation time
\* of an existing User; after any such operation a login with a registered
\* email and password that succeeded before still succeeds and returns the
\* same user id.
C27_AccountsUntouched ==
    [][(last'.op \in {"replace", "add_one", "save", "clear",
                      "create_session", "delete_session"})
       => /\ \A id \in DOMAIN users :
                /\ id \in DOMAIN users'
                /\ \A k \in {"username", "email", "password", "created_at"} :
                      /\ k \in DOMAIN users[id] <=> k \in DOMAIN users'[id]
                      /\ k \in DOMAIN users[id] => users'[id][k] = users[id][k]
          /\ \A account \in AccountBodies :
                LET before == login_user(users, account.email,
                                         account.password, now, TRUE)
                    after == login_user(users', account.email,
                                        account.password, now', TRUE)
                IN  ~before.raised
                    => /\ ~after.raised
                       /\ after.value.user.id = before.value.user.id]_vars

\* C28: under any interleaving of register requests, each a lookup by email
\* followed by a separate document write, no two User documents carry the
\* same email.
C28_EmailUnique ==
    \A a, b \in DOMAIN users : a # b => users[a].email # users[b].email

\* the values a user's stored preferences hold, each with its category
StoredValues(us, user_id) ==
    IF user_id \notin DOMAIN us \/ "preferences" \notin DOMAIN us[user_id]
    THEN {}
    ELSE LET prefs == us[user_id].preferences
         IN  UNION {IF IsList(prefs[k])
                    THEN {<<k, prefs[k].list[i]>> : i \in 1..Len(prefs[k].list)}
                    ELSE {<<k, prefs[k].scalar>>} : k \in DOMAIN prefs}

\* C29: no preference update is lost under concurrency: when add_one
\* requests for one user interleave and return success, the stored
\* preferences then hold the value of each of them; so every add_one that
\* returns success leaves its own value stored and every value stored
\* before it in place.
C29_NoLostUpdate ==
    [][(last'.op = "add_one" /\ last'.ok)
       => /\ <<last'.category, last'.value>>
                \in StoredValues(users', last'.user_id)
          /\ StoredValues(users, last'.user_id)
                \subseteq StoredValues(users', last'.user_id)]_vars

\* the Messages saved with the given user id
SavedBy(msgs, user_id) == {m \in msgs : m.user_id = user_id}

\* C30: every Message returned by history, search, sessions or summary for
\* user U was saved with user id U, so the answer is the one the store
\* holding U's Messages alone would give; and a clear or delete_session
\* issued by U deletes no Message saved with another user id, also when two
\* users use the same session id.
C30_UserIsolation ==
    [][LET u == last'.user_id
           own == SavedBy(messages, u)
       IN  /\ last'.op \in {"history", "search"}
              => /\ \A i \in 1..Len(last'.result) : last'.result[i] \in own
                 /\ last'.op = "history"
                    => last'.result
                         = get_conversation_history(own, u, last'.session_id,
                                                    last'.limit, TRUE)
                 /\ last'.op = "search"
                    => last'.result
                         = search_conversation(own, u, last'.query,
                                               last'.limit, TRUE)
           /\ last'.op = "sessions"
              => /\ \A i \in 1..Len(last'.result) :
                       last'.result[i].message_count
                          = Cardinality(MessagesOf(messages, u,
                                                   last'.result[i].session_id))
                 /\ last'.result = get_user_sessions(own, u, TRUE)
           /\ last'.op = "summary"
              => /\ last'.result.total_messages = Cardinality(own)
                 /\ last'.result = get_conversation_summary(own, u, TRUE)
           /\ last'.op \in {"clear", "delete_session"}
              => messages \ messages' \subseteq own]_vars

C30_Witness ==
    /\ last.op \in {"clear", "delete_session"}
    /\ last.ok
    /\ last.session_id = <<"uuid-1">>
    /\ now = MaxMessages
    /\ Cardinality(messages) = 1
    /\ \E m \in messages :
          m.user_id # last.user_id /\ m.session_id = last.session_id

====
